---- MODULE Spec2Model ----
(***************************************************************************)
(* Model of onvif/examples/view.rs: the camera discovery tool.  Every      *)
(* discovered device is handled by one unit (the async closure given to    *)
(* for_each_concurrent): endpoint selection, Clients::new, get_stream_uris *)
(* and the printing of the credentialed rtsp links.                        *)
(*                                                                         *)
(* Strings the code inspects character by character (URLs, hosts, codec    *)
(* identifiers, media URIs) are sequences of one-character strings.        *)
(* Strings the code only compares as a whole (namespaces, tokens, names)   *)
(* are TLA+ strings.                                                       *)
(***************************************************************************)
EXTENDS Integers, Sequences, FiniteSets

\* Option and Result values
None == [some |-> FALSE]
Some(x) == [some |-> TRUE, val |-> x]
Err(e) == [ok |-> FALSE, err |-> e]
Ok(x) == [ok |-> TRUE, val |-> x]

\* ---------------------------------------------------------------- strings

Digits == {"0", "1", "2", "3", "4", "5", "6", "7", "8", "9"}

DigitVal(c) ==
    CASE c = "0" -> 0 [] c = "1" -> 1 [] c = "2" -> 2 [] c = "3" -> 3
      [] c = "4" -> 4 [] c = "5" -> 5 [] c = "6" -> 6 [] c = "7" -> 7
      [] c = "8" -> 8 [] c = "9" -> 9

UpperToLower ==
    [c \in {"A", "B", "C", "D", "E", "F", "G", "H", "I", "J", "K", "L", "M",
            "N", "O", "P", "Q", "R", "S", "T", "U", "V", "W", "X", "Y", "Z"} |->
        CASE c = "A" -> "a" [] c = "B" -> "b" [] c = "C" -> "c" [] c = "D" -> "d"
          [] c = "E" -> "e" [] c = "F" -> "f" [] c = "G" -> "g" [] c = "H" -> "h"
          [] c = "I" -> "i" [] c = "J" -> "j" [] c = "K" -> "k" [] c = "L" -> "l"
          [] c = "M" -> "m" [] c = "N" -> "n" [] c = "O" -> "o" [] c = "P" -> "p"
          [] c = "Q" -> "q" [] c = "R" -> "r" [] c = "S" -> "s" [] c = "T" -> "t"
          [] c = "U" -> "u" [] c = "V" -> "v" [] c = "W" -> "w" [] c = "X" -> "x"
          [] c = "Y" -> "y" [] c = "Z" -> "z"]

\* str::to_ascii_lowercase
to_ascii_lowercase(s) ==
    [i \in 1..Len(s) |-> IF s[i] \in DOMAIN UpperToLower THEN UpperToLower[s[i]] ELSE s[i]]

\* str::starts_with
starts_with(s, p) == Len(p) <= Len(s) /\ SubSeq(s, 1, Len(p)) = p

ends_with(s, p) == Len(p) <= Len(s) /\ SubSeq(s, Len(s) - Len(p) + 1, Len(s)) = p

\* str::strip_prefix: None when s does not start with p
strip_prefix(s, p) == IF starts_with(s, p) THEN Some(SubSeq(s, Len(p) + 1, Len(s))) ELSE None

\* str::strip_suffix: None when s does not end with p
strip_suffix(s, p) == IF ends_with(s, p) THEN Some(SubSeq(s, 1, Len(s) - Len(p))) ELSE None

\* first position at or after i where p occurs in s, 0 when there is none
RECURSIVE FindFrom(_, _, _)
FindFrom(s, p, i) ==
    IF i + Len(p) - 1 > Len(s) THEN 0
    ELSE IF SubSeq(s, i, i + Len(p) - 1) = p THEN i
    ELSE FindFrom(s, p, i + 1)

\* last position of character c in s, 0 when there is none
RECURSIVE LastIndexOf(_, _, _)
LastIndexOf(s, c, i) ==
    IF i = 0 THEN 0 ELSE IF s[i] = c THEN i ELSE LastIndexOf(s, c, i - 1)

\* ---------------------------------------------------------------- Ipv4Addr

\* the pieces of s between the dots
RECURSIVE SplitDots(_)
SplitDots(s) ==
    LET k == FindFrom(s, <<".">>, 1)
    IN IF k = 0 THEN <<s>>
       ELSE <<SubSeq(s, 1, k - 1)>> \o SplitDots(SubSeq(s, k + 1, Len(s)))

RECURSIVE DecimalVal(_)
DecimalVal(s) == IF s = <<>> THEN 0 ELSE 10 * DecimalVal(SubSeq(s, 1, Len(s) - 1)) + DigitVal(s[Len(s)])

\* one octet of a dotted quad: one to three digits, no leading zero, at most 255
OctetOk(s) ==
    /\ Len(s) \in 1..3
    /\ \A i \in 1..Len(s) : s[i] \in Digits
    /\ (Len(s) > 1 => s[1] # "0")
    /\ DecimalVal(s) <= 255

\* Ipv4Addr::from_str: the four octets, or Err
Ipv4Addr_from_str(s) ==
    LET parts == SplitDots(s)
    IN IF Len(parts) = 4 /\ \A i \in 1..4 : OctetOk(parts[i])
       THEN Ok([i \in 1..4 |-> DecimalVal(parts[i])])
       ELSE Err("invalid IPv4 address syntax")

\* ---------------------------------------------------------------- Url

SchemeSep == <<":", "/", "/">>

\* Url::as_str: the serialization of a Url record
as_str(u) == u.scheme \o SchemeSep \o u.host \o u.path

\* Url::parse of an absolute URL: scheme "://" host path.  The scheme and
\* the host are lower-cased and an empty path becomes "/".  A string with
\* no scheme is a relative URL without a base: Err.
Url_parse(s) ==
    LET k == FindFrom(s, SchemeSep, 1)
    IN IF k <= 1 THEN Err("relative URL without a base")
       ELSE LET rest == SubSeq(s, k + 3, Len(s))
                sl == FindFrom(rest, <<"/">>, 1)
                host == IF sl = 0 THEN rest ELSE SubSeq(rest, 1, sl - 1)
                path == IF sl = 0 THEN <<"/">> ELSE SubSeq(rest, sl, Len(rest))
            IN IF host = <<>> THEN Err("empty host")
               ELSE Ok([scheme |-> to_ascii_lowercase(SubSeq(s, 1, k - 1)),
                        host |-> to_ascii_lowercase(host),
                        path |-> path])

\* Url::join with a relative path: the base's last path segment is replaced
Url_join(base, rel) ==
    [base EXCEPT !.path = SubSeq(base.path, 1, LastIndexOf(base.path, "/", Len(base.path))) \o rel]

\* ---------------------------------------------------------------- Clients

\* "onvif/device_service"
service_path ==
    <<"o", "n", "v", "i", "f", "/", "d", "e", "v", "i", "c", "e", "_",
      "s", "e", "r", "v", "i", "c", "e">>

NS_devicemgmt == "http://www.onvif.org/ver10/device/wsdl"
NS_event == "http://www.onvif.org/ver10/events/wsdl"
NS_deviceio == "http://www.onvif.org/ver10/deviceIO/wsdl"
NS_media == "http://www.onvif.org/ver10/media/wsdl"
NS_media2 == "http://www.onvif.org/ver20/media/wsdl"
NS_imaging == "http://www.onvif.org/ver20/imaging/wsdl"
NS_ptz == "http://www.onvif.org/ver20/ptz/wsdl"
NS_analytics == "http://www.onvif.org/ver20/analytics/wsdl"

\* the credentials of Clients::new; username and password come together
\* (structopt "requires"), one without the other panics
CredsPanics(a) == a.username.some # a.password.some

Credentials(a) ==
    IF a.username.some /\ a.password.some
    THEN Some([username |-> a.username.val, password |-> a.password.val])
    ELSE None

\* soap::client::ClientBuilder::new(uri).credentials(creds).build()
ClientBuilder(uri, creds) == [uri |-> uri, credentials |-> creds]

\* the Clients value before the service catalog is read
ClientsInit(devicemgmt_uri, creds) ==
    [devicemgmt |-> ClientBuilder(devicemgmt_uri, creds),
     imaging |-> None, ptz |-> None, event |-> None, deviceio |-> None,
     media |-> None, media2 |-> None, analytics |-> None]

\* a check of the scheme alone
WithinBase_schemeOnly(service_url, base) == service_url.scheme = base.scheme

\* the check that a service lies within the device's base URI
WithinBase(service_url, base) == starts_with(as_str(service_url), as_str(base))

\* a match without the check of the device-management URI
Dispatch_noMgmtCheck(out, namespace, svc, service_url, devicemgmt_uri) ==
    CASE namespace = NS_event -> Ok([out EXCEPT !.event = svc])
      [] namespace = NS_deviceio -> Ok([out EXCEPT !.deviceio = svc])
      [] namespace = NS_media -> Ok([out EXCEPT !.media = svc])
      [] namespace = NS_media2 -> Ok([out EXCEPT !.media2 = svc])
      [] namespace = NS_imaging -> Ok([out EXCEPT !.imaging = svc])
      [] namespace = NS_ptz -> Ok([out EXCEPT !.ptz = svc])
      [] namespace = NS_analytics -> Ok([out EXCEPT !.analytics = svc])
      [] OTHER -> Ok(out)

\* a match that takes an unknown namespace for an error
Dispatch_unknownIsError(out, namespace, svc, service_url, devicemgmt_uri) ==
    CASE namespace = NS_devicemgmt ->
           IF service_url # devicemgmt_uri
           THEN Err("advertised device mgmt uri not expected")
           ELSE Ok(out)
      [] namespace = NS_event -> Ok([out EXCEPT !.event = svc])
      [] namespace = NS_deviceio -> Ok([out EXCEPT !.deviceio = svc])
      [] namespace = NS_media -> Ok([out EXCEPT !.media = svc])
      [] namespace = NS_media2 -> Ok([out EXCEPT !.media2 = svc])
      [] namespace = NS_imaging -> Ok([out EXCEPT !.imaging = svc])
      [] namespace = NS_ptz -> Ok([out EXCEPT !.ptz = svc])
      [] namespace = NS_analytics -> Ok([out EXCEPT !.analytics = svc])
      [] OTHER -> Err("unknown service")

\* a match that keeps the first client of a role
Dispatch_firstWins(out, namespace, svc, service_url, devicemgmt_uri) ==
    CASE namespace = NS_devicemgmt ->
           IF service_url # devicemgmt_uri
           THEN Err("advertised device mgmt uri not expected")
           ELSE Ok(out)
      [] namespace = NS_event -> Ok(IF out.event.some THEN out ELSE [out EXCEPT !.event = svc])
      [] namespace = NS_deviceio ->
           Ok(IF out.deviceio.some THEN out ELSE [out EXCEPT !.deviceio = svc])
      [] namespace = NS_media -> Ok(IF out.media.some THEN out ELSE [out EXCEPT !.media = svc])
      [] namespace = NS_media2 ->
           Ok(IF out.media2.some THEN out ELSE [out EXCEPT !.media2 = svc])
      [] namespace = NS_imaging ->
           Ok(IF out.imaging.some THEN out ELSE [out EXCEPT !.imaging = svc])
      [] namespace = NS_ptz -> Ok(IF out.ptz.some THEN out ELSE [out EXCEPT !.ptz = svc])
      [] namespace = NS_analytics ->
           Ok(IF out.analytics.some THEN out ELSE [out EXCEPT !.analytics = svc])
      [] OTHER -> Ok(out)

\* the match on service.namespace: the Clients value after this entry, or Err
Dispatch(out, namespace, svc, service_url, devicemgmt_uri) ==
    CASE namespace = NS_devicemgmt ->
           IF service_url # devicemgmt_uri
           THEN Err("advertised device mgmt uri not expected")
           ELSE Ok(out)
      [] namespace = NS_event -> Ok([out EXCEPT !.event = svc])
      [] namespace = NS_deviceio -> Ok([out EXCEPT !.deviceio = svc])
      [] namespace = NS_media -> Ok([out EXCEPT !.media = svc])
      [] namespace = NS_media2 -> Ok([out EXCEPT !.media2 = svc])
      [] namespace = NS_imaging -> Ok([out EXCEPT !.imaging = svc])
      [] namespace = NS_ptz -> Ok([out EXCEPT !.ptz = svc])
      [] namespace = NS_analytics -> Ok([out EXCEPT !.analytics = svc])
      [] OTHER -> Ok(out)

\* a loop that passes over the entries that fail a check
RECURSIVE ServiceLoop_skipsBadEntries(_, _, _, _, _, _)
ServiceLoop_skipsBadEntries(base, devicemgmt_uri, creds, services, i, out) ==
    IF i > Len(services) THEN Ok(out)
    ELSE LET service == services[i]
             parsed == Url_parse(service.x_addr)
         IN IF ~parsed.ok \/ ~WithinBase(parsed.val, base)
            THEN ServiceLoop_skipsBadEntries(base, devicemgmt_uri, creds, services, i + 1, out)
            ELSE LET next == Dispatch(out, service.namespace,
                                      Some(ClientBuilder(parsed.val, creds)),
                                      parsed.val, devicemgmt_uri)
                 IN ServiceLoop_skipsBadEntries(base, devicemgmt_uri, creds, services, i + 1,
                                                IF next.ok THEN next.val ELSE out)

\* the loop over services.service, from entry i on
RECURSIVE ServiceLoop(_, _, _, _, _, _)
ServiceLoop(base, devicemgmt_uri, creds, services, i, out) ==
    IF i > Len(services) THEN Ok(out)
    ELSE LET service == services[i]
             parsed == Url_parse(service.x_addr)
         IN IF ~parsed.ok THEN Err(parsed.err)
            ELSE IF ~WithinBase(parsed.val, base)
            THEN Err("Service URI is not within base URI")
            ELSE LET next == Dispatch(out, service.namespace,
                                      Some(ClientBuilder(parsed.val, creds)),
                                      parsed.val, devicemgmt_uri)
                 IN IF ~next.ok THEN next
                    ELSE ServiceLoop(base, devicemgmt_uri, creds, services, i + 1, next.val)

\* Clients::new once get_services has answered with `response`
ClientsNew(base, a, response) ==
    IF ~response.ok THEN Err(response.err)
    ELSE ServiceLoop(base, Url_join(base, service_path), Credentials(a),
                     response.val, 1,
                     ClientsInit(Url_join(base, service_path), Credentials(a)))

\* ---------------------------------------------------------------- get_stream_uris

\* the GetStreamUri request of one profile
StreamUriRequest(p) ==
    [op |-> "GetStreamUri", profile_token |-> p.token,
     stream |-> "RtpUnicast", protocol |-> "Rtsp"]

\* requests for the profiles with a video encoder configuration only
Requests_encodedOnly(profiles) ==
    LET encoded(p) == p.video_encoder_configuration.some
    IN [i \in 1..Len(SelectSeq(profiles, encoded)) |->
           StreamUriRequest(SelectSeq(profiles, encoded)[i])]

\* requests: one per profile of the catalog, in catalog order
Requests(profiles) == [i \in 1..Len(profiles) |-> StreamUriRequest(profiles[i])]

\* every response stored under the first index
RecordResponse_firstKey(responses, i, response) ==
    IF response.ok THEN [k \in DOMAIN responses \cup {1} |->
                            IF k = 1 THEN response.val ELSE responses[k]]
    ELSE responses

\* the match on one response: an Ok response is stored under the request's
\* index, a failed one is logged only
RecordResponse(responses, i, response) ==
    IF response.ok THEN [k \in DOMAIN responses \cup {i} |->
                            IF k = i THEN response.val ELSE responses[k]]
    ELSE responses

\* the StreamSpec put in front of the earlier ones
PushStream_prepend(streams, p, i, responses) ==
    IF p.video_encoder_configuration.some /\ i \in DOMAIN responses
    THEN <<[name |-> p.name,
            media_uri |-> responses[i],
            video |-> [encoding |-> p.video_encoder_configuration.val.encoding,
                       width |-> p.video_encoder_configuration.val.width,
                       height |-> p.video_encoder_configuration.val.height]]>> \o streams
    ELSE streams

\* one step of the loop that copies the responses to streams
PushStream(streams, p, i, responses) ==
    IF p.video_encoder_configuration.some
    THEN IF i \in DOMAIN responses
         THEN Append(streams,
                     [name |-> p.name,
                      media_uri |-> responses[i],
                      video |-> [encoding |-> p.video_encoder_configuration.val.encoding,
                                 width |-> p.video_encoder_configuration.val.width,
                                 height |-> p.video_encoder_configuration.val.height]])
         ELSE streams
    ELSE streams

\* the loop over profiles.profiles.iter().enumerate(), from profile i on
RECURSIVE CopyStreams(_, _, _, _)
CopyStreams(profiles, responses, i, streams) ==
    IF i > Len(profiles) THEN streams
    ELSE CopyStreams(profiles, responses, i + 1,
                     PushStream(streams, profiles[i], i, responses))

\* ---------------------------------------------------------------- links

H264 == <<"h", "2", "6", "4">>
RtspPrefix == <<"r", "t", "s", "p", ":", "/", "/">>

\* a comparison that minds the case
IsH264_caseSensitive(s) == s.video.encoding = H264

\* the filter on the streams: the codec in lower case is "h264"
IsH264(s) == to_ascii_lowercase(s.video.encoding) = H264

\* the arguments of println! for one stream: a panic when an unwrap fails
LinkPanics(a, stream) ==
    \/ ~a.username.some
    \/ ~a.password.some
    \/ ~strip_prefix(stream.media_uri, RtspPrefix).some

\* "rtsp://{}:{}@{}"
Link(a, stream) ==
    RtspPrefix \o a.username.val \o <<":">> \o a.password.val \o <<"@">>
        \o strip_prefix(stream.media_uri, RtspPrefix).val

\* a loop that leaves out a stream whose link cannot be made
RECURSIVE PrintLinks_skipsFailed(_, _, _, _)
PrintLinks_skipsFailed(a, streams, i, lines) ==
    IF i > Len(streams) THEN [lines |-> lines, panicked |-> FALSE]
    ELSE IF ~IsH264(streams[i]) \/ LinkPanics(a, streams[i])
    THEN PrintLinks_skipsFailed(a, streams, i + 1, lines)
    ELSE PrintLinks_skipsFailed(a, streams, i + 1, Append(lines, Link(a, streams[i])))

\* the for loop over the filtered streams from stream i on: the lines
\* printed, and whether the loop ended in a panic
RECURSIVE PrintLinks(_, _, _, _)
PrintLinks(a, streams, i, lines) ==
    IF i > Len(streams) THEN [lines |-> lines, panicked |-> FALSE]
    ELSE IF ~IsH264(streams[i]) THEN PrintLinks(a, streams, i + 1, lines)
    ELSE IF LinkPanics(a, streams[i]) THEN [lines |-> lines, panicked |-> TRUE]
    ELSE PrintLinks(a, streams, i + 1, Append(lines, Link(a, streams[i])))

\* ---------------------------------------------------------------- endpoint

\* "192.168.0.1", the default of --listen-addr
listen_addr_arg == <<"1", "9", "2", ".", "1", "6", "8", ".", "0", ".", "1">>

listen_addr == Ipv4Addr_from_str(listen_addr_arg).val

\* the closure given to find: TRUE, FALSE, or a panic when the host of an
\* https URL is no IPv4 address
SameSubnet(h) == SubSeq(Ipv4Addr_from_str(h).val, 1, 3) = SubSeq(listen_addr, 1, 3)

\* the subnet test without the test of the scheme
Qualifies_anyScheme(u) ==
    IF ~Ipv4Addr_from_str(u.host).ok THEN [panicked |-> TRUE, val |-> FALSE]
    ELSE [panicked |-> FALSE, val |-> SameSubnet(u.host)]

Qualifies(u) ==
    IF u.scheme # <<"h", "t", "t", "p", "s">> THEN [panicked |-> FALSE, val |-> FALSE]
    ELSE IF ~Ipv4Addr_from_str(u.host).ok THEN [panicked |-> TRUE, val |-> FALSE]
    ELSE [panicked |-> FALSE, val |-> SameSubnet(u.host)]

\* addr.urls.into_iter().find(..).expect(..), from URL i on: the URL found,
\* or a panic (in the closure, or in expect when no URL qualifies)
RECURSIVE FindUrl(_, _)
FindUrl(urls, i) ==
    IF i > Len(urls) THEN [panicked |-> TRUE]
    ELSE LET q == Qualifies(urls[i])
         IN IF q.panicked THEN [panicked |-> TRUE]
            ELSE IF q.val THEN [panicked |-> FALSE, val |-> urls[i]]
            ELSE FindUrl(urls, i + 1)

\* uri.as_str().strip_suffix(service_path).unwrap_or_else(|| uri.as_str())
BaseString(u) ==
    IF strip_suffix(as_str(u), service_path).some
    THEN strip_suffix(as_str(u), service_path).val
    ELSE as_str(u)

\* ---------------------------------------------------------------- the unit of one device

MAX_CONCURRENT_JUMPERS == 100

VARIABLES
    args,        \* Args: username and password (Options)
    discovery,   \* the answer of DiscoveryBuilder::run: Ok(the devices of the stream) or Err
    mainPc,      \* where main is: "discovery", "for_each", "exited", "panicked"
    next,        \* the position in the device stream of the next device to take
    unit,        \* per device: the state of its closure (see NewUnit)
    poolTaken,   \* opaque units: devices taken from the stream so far
    poolActive   \* opaque units: units started and not yet finished

vars == <<args, discovery, mainPc, next, unit, poolTaken, poolActive>>

Devices == IF discovery.ok THEN discovery.val ELSE <<>>

\* the closure of a device before it is polled
NewUnit ==
    [pc |-> "queued",      \* "queued", "get_services", "get_profiles",
                           \* "get_stream_uri", "done", "panicked"
     base |-> None,        \* ClientArgs.uri
     clients |-> None,     \* the result of Clients::new
     requests |-> <<>>,    \* get_stream_uris: requests
     i |-> 0,              \* get_stream_uris: the request awaited (from 1)
     responses |-> <<>>,   \* get_stream_uris: responses, by request index
     streams |-> None,     \* the result of get_stream_uris
     sent |-> <<>>,        \* the requests this unit has sent to the device
     out |-> <<>>]         \* the lines this unit has printed

Done(u) == [u EXCEPT !.pc = "done"]

\* the closure up to its first await: endpoint selection, then Clients::new
\* up to the get_services call
Begin(u, device, a) ==
    LET found == FindUrl(device.urls, 1)
    IN IF found.panicked THEN [u EXCEPT !.pc = "panicked"]
       ELSE LET parsed == Url_parse(BaseString(found.val))
            IN IF ~parsed.ok \/ CredsPanics(a) THEN [u EXCEPT !.pc = "panicked"]
               ELSE [u EXCEPT !.pc = "get_services",
                              !.base = Some(parsed.val),
                              !.sent = Append(@, [op |-> "GetServices",
                                                  to |-> Url_join(parsed.val, service_path)])]

\* get_profiles sent to the device-management client when there is no media client
EnterGetStreamUris_anyClient(u, clients) ==
    [u EXCEPT !.pc = "get_profiles",
              !.sent = Append(@, [op |-> "GetProfiles",
                                  to |-> IF clients.media.some THEN clients.media.val.uri
                                         ELSE clients.devicemgmt.uri])]

\* get_stream_uris up to its first await: the media client, then get_profiles
EnterGetStreamUris(u, clients) ==
    IF ~clients.media.some
    THEN Done([u EXCEPT !.streams = Some(Err("Client media is not available"))])
    ELSE [u EXCEPT !.pc = "get_profiles",
                   !.sent = Append(@, [op |-> "GetProfiles", to |-> clients.media.val.uri])]

\* the closure resumed with the answer to get_services
AfterGetServices(u, a, response) ==
    LET made == ClientsNew(u.base.val, a, response)
    IN IF ~made.ok THEN Done([u EXCEPT !.clients = Some(made)])
       ELSE EnterGetStreamUris([u EXCEPT !.clients = Some(made)], made.val)

\* the end of get_stream_uris and the loop that prints the links
Finish(u, a, profiles) ==
    LET streams == CopyStreams(profiles, u.responses, 1, <<>>)
        printed == PrintLinks(a, streams, 1, <<>>)
    IN [u EXCEPT !.streams = Some(Ok(streams)),
                 !.out = @ \o printed.lines,
                 !.pc = IF printed.panicked THEN "panicked" ELSE "done"]

\* every request from i on sent at once
SendRequest_all(u, i) ==
    [u EXCEPT !.pc = "get_stream_uri", !.i = i,
              !.sent = @ \o SubSeq(u.requests, i, Len(u.requests))]

\* send request i of u.requests
SendRequest(u, i) ==
    [u EXCEPT !.pc = "get_stream_uri", !.i = i, !.sent = Append(@, u.requests[i])]

\* a request loop that sends a failed request a second time
RequestLoop_retryOnce(u, a, profiles, i) ==
    IF /\ i > 1
       /\ (i - 1) \notin DOMAIN u.responses
       /\ Cardinality({k \in 1..Len(u.sent) : u.sent[k] = u.requests[i - 1]}) < 2
    THEN SendRequest(u, i - 1)
    ELSE IF i <= Len(u.requests) THEN SendRequest(u, i) ELSE Finish(u, a, profiles)

\* a request loop that returns the error of a failed request
RequestLoop_stopAtFailure(u, a, profiles, i) ==
    IF i > 1 /\ (i - 1) \notin DOMAIN u.responses
    THEN Done([u EXCEPT !.streams = Some(Err("request failed"))])
    ELSE IF i <= Len(u.requests) THEN SendRequest(u, i) ELSE Finish(u, a, profiles)

\* the request loop at request i: send it, or leave the loop
RequestLoop(u, a, profiles, i) ==
    IF i <= Len(u.requests) THEN SendRequest(u, i) ELSE Finish(u, a, profiles)

\* the closure resumed with the answer to get_profiles
AfterGetProfiles(u, a, response) ==
    IF ~response.ok THEN Done([u EXCEPT !.streams = Some(Err(response.err))])
    ELSE RequestLoop([u EXCEPT !.requests = Requests(response.val)], a, response.val, 1)

\* the closure resumed with the answer to request u.i
AfterGetStreamUri(u, a, profiles, response) ==
    RequestLoop([u EXCEPT !.responses = RecordResponse(@, u.i, response)],
                a, profiles, u.i + 1)

\* ---------------------------------------------------------------- for_each_concurrent

Active == {d \in 1..Len(Devices) :
              unit[d].pc \in {"get_services", "get_profiles", "get_stream_uri"}}

\* no limit
StartGuard_unbounded(inFlight) == TRUE

\* for_each_concurrent(limit, ..) takes a device from the stream only while
\* fewer than limit units are in flight
StartGuard(inFlight) == inFlight < MAX_CONCURRENT_JUMPERS

\* a panic in a unit unwinds through for_each_concurrent and main
Resume(d, u) ==
    /\ unit' = [unit EXCEPT ![d] = u]
    /\ mainPc' = IF u.pc = "panicked" THEN "panicked" ELSE mainPc

DiscoveryRun ==
    /\ mainPc = "discovery"
    /\ mainPc' = IF discovery.ok THEN "for_each" ELSE "exited"
    /\ UNCHANGED <<args, discovery, next, unit, poolTaken, poolActive>>

StartUnit ==
    /\ mainPc = "for_each"
    /\ next <= Len(Devices)
    /\ StartGuard(Cardinality(Active))
    /\ Resume(next, Begin(unit[next], Devices[next], args))
    /\ next' = next + 1
    /\ UNCHANGED <<args, discovery, poolTaken, poolActive>>

GetServicesReturn(d) ==
    /\ mainPc = "for_each"
    /\ unit[d].pc = "get_services"
    /\ Resume(d, AfterGetServices(unit[d], args, Devices[d].services))
    /\ UNCHANGED <<args, discovery, next, poolTaken, poolActive>>

GetProfilesReturn(d) ==
    /\ mainPc = "for_each"
    /\ unit[d].pc = "get_profiles"
    /\ Resume(d, AfterGetProfiles(unit[d], args, Devices[d].profiles))
    /\ UNCHANGED <<args, discovery, next, poolTaken, poolActive>>

GetStreamUriReturn(d) ==
    /\ mainPc = "for_each"
    /\ unit[d].pc = "get_stream_uri"
    /\ Resume(d, AfterGetStreamUri(unit[d], args, Devices[d].profiles.val,
                     Devices[d].stream_uri[unit[d].requests[unit[d].i].profile_token]))
    /\ UNCHANGED <<args, discovery, next, poolTaken, poolActive>>

\* the stream has ended and every unit has finished: for_each_concurrent returns
ForEachDone ==
    /\ mainPc = "for_each"
    /\ next > Len(Devices)
    /\ Active = {}
    /\ mainPc' = "exited"
    /\ UNCHANGED <<args, discovery, next, unit, poolTaken, poolActive>>

Next ==
    \/ DiscoveryRun
    \/ StartUnit
    \/ \E d \in 1..Len(Devices) : GetServicesReturn(d)
    \/ \E d \in 1..Len(Devices) : GetProfilesReturn(d)
    \/ \E d \in 1..Len(Devices) : GetStreamUriReturn(d)
    \/ ForEachDone

\* ---------------------------------------------------------------- opaque units

\* for_each_concurrent with each unit taken as a whole: it is started when
\* taken from the stream and finishes at some later time
PoolStart ==
    /\ poolTaken < Len(Devices)
    /\ StartGuard(poolActive)
    /\ poolTaken' = poolTaken + 1
    /\ poolActive' = poolActive + 1
    /\ UNCHANGED <<args, discovery, mainPc, next, unit>>

PoolFinish ==
    /\ poolActive > 0
    /\ poolActive' = poolActive - 1
    /\ UNCHANGED <<args, discovery, mainPc, next, unit, poolTaken>>

NextPool == PoolStart \/ PoolFinish

\* ---------------------------------------------------------------- inputs

MaxUrls == 2
MaxServices == 3
MaxProfiles == 3
NumDevices == 2
ExtraDevices == 2

SeqsUpTo(S, n) == UNION {[1..k -> S] : k \in 0..n}

S_https == <<"h", "t", "t", "p", "s">>
S_http == <<"h", "t", "t", "p">>
Host5 == <<"1", "9", "2", ".", "1", "6", "8", ".", "0", ".", "5">>
Host6 == <<"1", "9", "2", ".", "1", "6", "8", ".", "0", ".", "6">>
HostFar == <<"1", "9", "2", ".", "1", "6", "8", ".", "1", ".", "5">>
HostName == <<"c", "a", "m", ".", "l", "a", "n">>
HostOut == <<"1", "0", ".", "0", ".", "0", ".", "9">>
P_root == <<"/">>
P_onvif == <<"/", "o", "n", "v", "i", "f", "/">>
P_device == P_onvif \o <<"d", "e", "v", "i", "c", "e", "_", "s", "e", "r", "v", "i", "c", "e">>
P_media == P_onvif \o <<"m", "e", "d", "i", "a">>
P_media_b == P_onvif \o <<"m", "e", "d", "i", "a", "_", "b">>
P_other == P_onvif \o <<"o", "t", "h", "e", "r">>

Url(scheme, host, path) == [scheme |-> scheme, host |-> host, path |-> path]

U_ok == Url(S_https, Host5, P_device)
U_plain == Url(S_http, Host5, P_device)
U_far == Url(S_https, HostFar, P_device)
U_name == Url(S_https, HostName, P_device)
U_root == Url(S_https, Host6, P_root)

UrlPool == {U_ok, U_plain, U_far, U_name, U_root}

Entry(namespace, x_addr) == [namespace |-> namespace, x_addr |-> x_addr]

NS_unknown == "http://www.onvif.org/ver10/search/wsdl"

\* catalog entries of a device at https://192.168.0.5/
EntryPool ==
    {Entry(NS_media, as_str(Url(S_https, Host5, P_media))),
     Entry(NS_media, as_str(Url(S_https, Host5, P_media_b))),
     Entry(NS_media, as_str(Url(S_https, HostOut, P_media))),
     Entry(NS_ptz, as_str(Url(S_https, Host5, P_other))),
     Entry(NS_unknown, as_str(Url(S_https, Host5, P_other))),
     Entry(NS_unknown, as_str(Url(S_https, HostOut, P_other))),
     Entry(NS_devicemgmt, as_str(Url(S_https, Host5, P_device))),
     Entry(NS_devicemgmt, as_str(Url(S_https, Host5, P_other))),
     Entry(NS_event, <<"m", "e", "d", "i", "a">>)}

DigitChar(n) == CHOOSE c \in Digits : DigitVal(c) = n

Token(i) == <<"token", i>>

S_user == <<"u", "s", "e", "r">>
S_pass == <<"p", "a", "s", "s">>
S_cam == <<"c", "a", "m", "/">>

Venc(encoding, width, height) ==
    Some([encoding |-> encoding, width |-> width, height |-> height])

VencPool ==
    {None,
     Venc(<<"H", "2", "6", "4">>, 1920, 1080),
     Venc(<<"h", "2", "6", "4">>, 640, 480),
     Venc(<<"H", "2", "6", "5">>, 1280, 720)}

Profile(i, venc) ==
    [token |-> Token(i), name |-> <<"profile", i>>, video_encoder_configuration |-> venc]

\* what a device with n profiles answers to GetStreamUri for profile i: a
\* failure or an rtsp URI, and for the last profile also a URI that is no
\* rtsp URI
AnswerPool(i, n) ==
    {Err("fault"), Ok(RtspPrefix \o S_cam \o <<DigitChar(i)>>)}
    \cup (IF i = n THEN {Ok(S_http \o SchemeSep \o S_cam \o <<DigitChar(i)>>)} ELSE {})

\* the answers of a device with n profiles, for its first k profiles
RECURSIVE AnswerSeqsTo(_, _)
AnswerSeqsTo(k, n) ==
    IF k = 0 THEN {<<>>}
    ELSE {Append(a, x) : a \in AnswerSeqsTo(k - 1, n), x \in AnswerPool(k, n)}

AnswerSeqs(n) == AnswerSeqsTo(n, n)

Device(urls, services, profiles, answers) ==
    [urls |-> urls, services |-> services, profiles |-> profiles,
     stream_uri |-> [t \in {Token(i) : i \in 1..Len(answers)} |-> answers[t[2]]]]

MediaOnly == <<Entry(NS_media, as_str(Url(S_https, Host5, P_media)))>>
TwoProfiles == <<Profile(1, Venc(<<"H", "2", "6", "4">>, 1920, 1080)),
                 Profile(2, Venc(<<"h", "2", "6", "4">>, 640, 480))>>
TwoAnswers == <<Ok(RtspPrefix \o S_cam \o <<"1">>), Ok(RtspPrefix \o S_cam \o <<"2">>)>>

\* one device for each stage at which a unit can end
DeviceKinds ==
    {Device(<<U_ok>>, Ok(MediaOnly), Ok(TwoProfiles), TwoAnswers),
     Device(<<U_plain>>, Ok(MediaOnly), Ok(TwoProfiles), TwoAnswers),
     Device(<<U_ok>>, Err("timeout"), Ok(TwoProfiles), TwoAnswers),
     Device(<<U_ok>>, Ok(<<Entry(NS_media, as_str(Url(S_https, HostOut, P_media)))>>),
            Ok(TwoProfiles), TwoAnswers),
     Device(<<U_ok>>, Ok(<<>>), Ok(TwoProfiles), TwoAnswers),
     Device(<<U_ok>>, Ok(MediaOnly), Err("timeout"), TwoAnswers),
     Device(<<U_ok>>, Ok(MediaOnly), Ok(TwoProfiles),
            <<Err("fault"), Ok(RtspPrefix \o S_cam \o <<"2">>)>>)}

ArgsPool ==
    {[username |-> None, password |-> None],
     [username |-> Some(S_user), password |-> Some(S_pass)]}

\* the streams main can meet: several devices of the kinds above, or one
\* device with any candidate URLs, any service catalog, or any profiles
KindStreams == SeqsUpTo(DeviceKinds, NumDevices)

UrlStreams ==
    {<<Device(urls, Ok(MediaOnly), Ok(TwoProfiles), TwoAnswers)>> :
        urls \in SeqsUpTo(UrlPool, MaxUrls)}

CatalogStreams ==
    {<<Device(<<U_ok>>, Ok(services), Ok(TwoProfiles), TwoAnswers)>> :
        services \in SeqsUpTo(EntryPool, MaxServices)}

ProfileStreams(n) ==
    {<<Device(<<U_ok>>, Ok(MediaOnly), Ok([i \in 1..n |-> Profile(i, vencs[i])]), answers)>> :
        vencs \in [1..n -> VencPool], answers \in AnswerSeqs(n)}

Init ==
    /\ args \in ArgsPool
    /\ \/ discovery = Err("io")
       \/ \E devices \in KindStreams : discovery = Ok(devices)
       \/ \E devices \in UrlStreams : discovery = Ok(devices)
       \/ \E devices \in CatalogStreams : discovery = Ok(devices)
       \/ \E n \in 0..MaxProfiles : \E devices \in ProfileStreams(n) : discovery = Ok(devices)
    /\ mainPc = "discovery"
    /\ next = 1
    /\ unit = [d \in 1..Len(Devices) |-> NewUnit]
    /\ poolTaken = 0
    /\ poolActive = 0

Spec == Init /\ [][Next]_vars

\* a stream of more devices than the limit, the units taken as opaque
InitPool ==
    /\ args \in ArgsPool
    /\ discovery = Ok([d \in 1..(MAX_CONCURRENT_JUMPERS + ExtraDevices) |-> d])
    /\ mainPc = "for_each"
    /\ next = 1
    /\ unit = <<>>
    /\ poolTaken = 0
    /\ poolActive = 0

SpecPool == InitPool /\ [][NextPool]_vars

\* ---------------------------------------------------------------- properties

D == 1..Len(Devices)

\* the unit of d has ended: its closure returned, or it panicked
Ended(d) == unit[d].pc \in {"done", "panicked"}

\* get_stream_uris has returned for d; with Ok
Returned(d) == unit[d].streams.some
ReturnedOk(d) == Returned(d) /\ unit[d].streams.val.ok
StreamsOf(d) == unit[d].streams.val.val

\* Clients::new has returned for d
ClientsReturned(d) == unit[d].clients.some

\* Clients::new gave d a media client
HasMediaClient(d) ==
    ClientsReturned(d) /\ unit[d].clients.val.ok /\ unit[d].clients.val.val.media.some

\* the profile catalog of d and what d answers for profile i
Catalog(d) == Devices[d].profiles.val
Answer(d, i) == Devices[d].stream_uri[Catalog(d)[i].token]
Encoded(d, i) == Catalog(d)[i].video_encoder_configuration.some

\* the get-stream-URI requests d has been sent, and the other requests
IsStreamUriRequest(r) == r.op = "GetStreamUri"
StreamUriSent(d) == SelectSeq(unit[d].sent, IsStreamUriRequest)
SentOp(d, op) == {k \in 1..Len(unit[d].sent) : unit[d].sent[k].op = op}

\* the position in the catalog of the profile a StreamSpec names
ProfileIndex(stream) == stream.name[2]

\* what the unit of a device does when no other device is there
RECURSIVE RunAlone(_, _, _)
RunAlone(u, device, a) ==
    CASE u.pc = "queued" -> RunAlone(Begin(u, device, a), device, a)
      [] u.pc = "get_services" -> RunAlone(AfterGetServices(u, a, device.services), device, a)
      [] u.pc = "get_profiles" -> RunAlone(AfterGetProfiles(u, a, device.profiles), device, a)
      [] u.pc = "get_stream_uri" ->
           RunAlone(AfterGetStreamUri(u, a, device.profiles.val,
                                      device.stream_uri[u.requests[u.i].profile_token]),
                    device, a)
      [] OTHER -> u

\* C1: a failure at any stage of one device's unit aborts only that unit:
\* the run never crashes, and when it has ended every device has printed
\* exactly the lines it prints alone.
C1_FailureAbortsOnlyTheUnit ==
    /\ mainPc # "panicked"
    /\ (mainPc = "exited" =>
           \A d \in D : unit[d].out = RunAlone(NewUnit, Devices[d], args).out)

C3_FailedRequestIsolated ==
    \A d \in D : Returned(d) /\ HasMediaClient(d) /\ Devices[d].profiles.ok =>
        /\ unit[d].streams.val.ok
        /\ Len(StreamUriSent(d)) = Len(Catalog(d))
        /\ \A i \in 1..Len(Catalog(d)) : Encoded(d, i) /\ Answer(d, i).ok =>
               \E k \in 1..Len(StreamsOf(d)) : StreamsOf(d)[k].name = Catalog(d)[i].name

\* a failed request between two successful ones, both in the result
C3_Witness ==
    \E d \in D : /\ ReturnedOk(d)
                 /\ Len(Catalog(d)) = 3
                 /\ Encoded(d, 1) /\ Answer(d, 1).ok
                 /\ Encoded(d, 2) /\ ~Answer(d, 2).ok
                 /\ Encoded(d, 3) /\ Answer(d, 3).ok
                 /\ Len(StreamsOf(d)) = 2

\* an entry of the catalog of d whose URL parses and does not begin with
\* the base URI of d
OutsideBase(d) ==
    {k \in 1..Len(Devices[d].services.val) :
        LET parsed == Url_parse(Devices[d].services.val[k].x_addr)
        IN parsed.ok /\ ~starts_with(as_str(parsed.val), as_str(unit[d].base.val))}

\* C4: if any entry of the service catalog advertises a URL that does not
\* begin with the device's base URI, Clients::new returns an error, and the
\* device gets no profile or stream-URI request and prints no line.
C4_ServiceOutsideBaseRejectsDevice ==
    \A d \in D : ClientsReturned(d) /\ Devices[d].services.ok /\ OutsideBase(d) # {} =>
        /\ ~unit[d].clients.val.ok
        /\ unit[d].out = <<>>
        /\ SentOp(d, "GetProfiles") = {}
        /\ SentOp(d, "GetStreamUri") = {}

\* the offending entry has an unrecognized namespace and comes after a
\* valid media entry
C4_Witness ==
    \E d \in D : /\ ClientsReturned(d) /\ Devices[d].services.ok
                 /\ unit[d].pc = "done"
                 /\ \E k \in OutsideBase(d) :
                        /\ k > 1
                        /\ Devices[d].services.val[k].namespace = NS_unknown
                        /\ Devices[d].services.val[1] = MediaOnly[1]

\* a candidate URL that is https and whose host is an IPv4 address with the
\* first three octets of the listen address
OnSubnet(u) ==
    /\ u.scheme = S_https
    /\ Ipv4Addr_from_str(u.host).ok
    /\ \A k \in 1..3 : Ipv4Addr_from_str(u.host).val[k] = listen_addr[k]

NoneOnSubnet(d) == \A k \in 1..Len(Devices[d].urls) : ~OnSubnet(Devices[d].urls[k])

C6_StreamsInCatalogOrder ==
    \A d \in D : ReturnedOk(d) =>
        /\ \A k \in 1..Len(StreamsOf(d)) :
               /\ ProfileIndex(StreamsOf(d)[k]) \in 1..Len(Catalog(d))
               /\ Encoded(d, ProfileIndex(StreamsOf(d)[k]))
               /\ Answer(d, ProfileIndex(StreamsOf(d)[k])).ok
        /\ \A k, l \in 1..Len(StreamsOf(d)) :
               k < l => ProfileIndex(StreamsOf(d)[k]) < ProfileIndex(StreamsOf(d)[l])

\* profiles 1 and 3 are in the result, profile 2 is not
C6_Witness ==
    \E d \in D : /\ ReturnedOk(d)
                 /\ Len(StreamsOf(d)) = 2
                 /\ ProfileIndex(StreamsOf(d)[1]) = 1
                 /\ ProfileIndex(StreamsOf(d)[2]) = 3

\* the profiles of d that have encoder configuration and whose request succeeded
Resolved(d) ==
    LET ok(i) == Encoded(d, i) /\ Answer(d, i).ok
    IN SelectSeq([i \in 1..Len(Catalog(d)) |-> i], ok)

\* the StreamSpec of profile i of d
StreamSpecOf(d, i) ==
    [name |-> Catalog(d)[i].name,
     media_uri |-> Answer(d, i).val,
     video |-> [encoding |-> Catalog(d)[i].video_encoder_configuration.val.encoding,
                width |-> Catalog(d)[i].video_encoder_configuration.val.width,
                height |-> Catalog(d)[i].video_encoder_configuration.val.height]]

\* C7: get_stream_uris returns exactly one StreamSpec for each profile with
\* encoder configuration whose own request succeeded, with that profile's
\* name and encoder and the URI answered for that profile's token.
C7_OneStreamSpecPerResolvedProfile ==
    \A d \in D : ReturnedOk(d) =>
        StreamsOf(d) = [k \in 1..Len(Resolved(d)) |-> StreamSpecOf(d, Resolved(d)[k])]

\* two resolved profiles with different URIs and one profile left out
C7_Witness ==
    \E d \in D : /\ ReturnedOk(d)
                 /\ Len(Resolved(d)) = 2
                 /\ Len(Catalog(d)) = 3
                 /\ StreamsOf(d)[1].media_uri # StreamsOf(d)[2].media_uri

\* C8: at most MAX_CONCURRENT_JUMPERS units are active in any state.
C8_ConcurrencyCeiling == poolActive <= MAX_CONCURRENT_JUMPERS

\* the ceiling is reached while a device waits in the stream
C8_Witness == poolActive = MAX_CONCURRENT_JUMPERS /\ poolTaken < Len(Devices)

\* the media URI with its leading "rtsp://" removed
WithoutRtsp(uri) ==
    IF starts_with(uri, RtspPrefix) THEN SubSeq(uri, Len(RtspPrefix) + 1, Len(uri)) ELSE uri

\* equality of codec identifiers up to the case of letters
SameLetter(a, b) ==
    \/ a = b
    \/ a \in DOMAIN UpperToLower /\ UpperToLower[a] = b
    \/ b \in DOMAIN UpperToLower /\ UpperToLower[b] = a
EqualIgnoringCase(s, t) == Len(s) = Len(t) /\ \A k \in 1..Len(s) : SameLetter(s[k], t[k])

IsTargetCodec(stream) == EqualIgnoringCase(stream.video.encoding, H264)

\* one line per StreamSpec with codec h264, in StreamSpec order
ExpectedLines(d) ==
    LET kept == SelectSeq(StreamsOf(d), IsTargetCodec)
    IN [k \in 1..Len(kept) |->
           RtspPrefix \o args.username.val \o <<":">> \o args.password.val \o <<"@">>
               \o WithoutRtsp(kept[k].media_uri)]

\* C9: with credentials, the lines of a device are exactly one line per
\* StreamSpec with codec h264, in order, each "rtsp://user:pass@" and the
\* media URI without its leading "rtsp://".
C9_OneLinePerH264Stream ==
    \A d \in D : Ended(d) /\ ReturnedOk(d) /\ args.username.some /\ args.password.some =>
        unit[d].out = ExpectedLines(d)

\* C10: the codec filter keeps a StreamSpec exactly when its codec equals
\* "h264" up to case: a unit that printed its links printed one line per
\* such StreamSpec, and a unit can fail in the printing only at such a
\* StreamSpec.
C10_CodecFilterIgnoresCase ==
    \A d \in D : Ended(d) /\ ReturnedOk(d) =>
        LET kept == SelectSeq(StreamsOf(d), IsTargetCodec)
        IN /\ unit[d].pc = "done" => Len(unit[d].out) = Len(kept)
           /\ unit[d].pc = "panicked" => Len(unit[d].out) < Len(kept)

\* "H264" and "h264" are kept and "H265" is not
C10_Witness ==
    \E d \in D : /\ unit[d].pc = "done" /\ ReturnedOk(d)
                 /\ Len(StreamsOf(d)) = 3
                 /\ Len(unit[d].out) = 2
                 /\ \E k \in 1..3 : StreamsOf(d)[k].video.encoding = <<"H", "2", "6", "4">>
                 /\ \E k \in 1..3 : StreamsOf(d)[k].video.encoding = <<"h", "2", "6", "4">>
                 /\ \E k \in 1..3 : StreamsOf(d)[k].video.encoding = <<"H", "2", "6", "5">>


NoCredentials == ~args.username.some /\ ~args.password.some

\* C11 as stated: without credentials no line is ever printed, and the
\* printing of the links of a device ends in an error.
C11_NoCredentialsAlwaysAnError ==
    NoCredentials =>
        \A d \in D : /\ unit[d].out = <<>>
                     /\ (Ended(d) /\ ReturnedOk(d) => unit[d].pc = "panicked")

\* C11 amended: without credentials no line is ever printed; the printing
\* of the links of a device fails, with a panic, exactly when a StreamSpec
\* has the codec h264, and ends without error when none has.
C11_NoCredentialsNoLinePanicAtFirstLink ==
    NoCredentials =>
        \A d \in D : /\ unit[d].out = <<>>
                     /\ (Ended(d) /\ ReturnedOk(d) =>
                            (unit[d].pc = "panicked" <=>
                                \E k \in 1..Len(StreamsOf(d)) : IsTargetCodec(StreamsOf(d)[k])))

\* without credentials, a device with an h264 StreamSpec: the unit fails
\* and nothing is printed
C11_Witness ==
    /\ NoCredentials
    /\ \E d \in D : /\ ReturnedOk(d)
                    /\ unit[d].pc = "panicked"
                    /\ Len(StreamsOf(d)) > 0
                    /\ unit[d].out = <<>>

\* the entries of the catalog of d with namespace ns
EntriesOf(d, ns) ==
    {k \in 1..Len(Devices[d].services.val) : Devices[d].services.val[k].namespace = ns}

\* Clients::new has returned Ok for d
ClientsOk(d) == ClientsReturned(d) /\ unit[d].clients.val.ok

\* C12: when the service catalog has no media entry, get_stream_uris
\* returns an error before any profile-catalog or stream-URI request, and
\* the device prints no line.
C12_NoMediaClientNoRequest ==
    \A d \in D : ClientsOk(d) /\ EntriesOf(d, NS_media) = {} =>
        /\ Returned(d) /\ ~unit[d].streams.val.ok
        /\ SentOp(d, "GetProfiles") = {}
        /\ SentOp(d, "GetStreamUri") = {}
        /\ unit[d].out = <<>>

\* a catalog with entries, none of them for media
C12_Witness ==
    \E d \in D : /\ ClientsOk(d)
                 /\ EntriesOf(d, NS_media) = {}
                 /\ Len(Devices[d].services.val) > 0
                 /\ unit[d].pc = "done"

\* entry k of the catalog of d passes the checks of Clients::new
EntryValid(d, k) ==
    LET entry == Devices[d].services.val[k]
        parsed == Url_parse(entry.x_addr)
    IN /\ parsed.ok
       /\ starts_with(as_str(parsed.val), as_str(unit[d].base.val))
       /\ (entry.namespace = NS_devicemgmt =>
              as_str(parsed.val) = as_str(unit[d].base.val) \o service_path)

CatalogValid(d) ==
    /\ Devices[d].services.ok
    /\ \A k \in 1..Len(Devices[d].services.val) : EntryValid(d, k)

\* C13: a profile-catalog or stream-URI request is sent only after
\* get_services has returned successfully and every entry has passed the
\* checks; otherwise the get_services call is the only request of the device
\* and its unit ends without output.
C13_RequestsOnlyAfterValidCatalog ==
    \A d \in D :
        /\ (SentOp(d, "GetProfiles") \cup SentOp(d, "GetStreamUri") # {} =>
               ClientsReturned(d) /\ CatalogValid(d))
        /\ (ClientsReturned(d) /\ ~CatalogValid(d) =>
               /\ Len(unit[d].sent) = 1
               /\ unit[d].pc = "done"
               /\ unit[d].out = <<>>)

\* a valid media entry followed by an entry that fails a check
C13_Witness ==
    \E d \in D : /\ ClientsReturned(d) /\ Devices[d].services.ok
                 /\ Len(Devices[d].services.val) > 1
                 /\ Devices[d].services.val[1] = MediaOnly[1]
                 /\ EntryValid(d, 1)
                 /\ ~EntryValid(d, 2)
                 /\ unit[d].pc = "done"


\* main has ended: it returned, or a panic unwound through it
RunEnded == mainPc \in {"exited", "panicked"}

\* C14: the run ends only after every unit that was started has finished.
C14_EndsOnlyAfterEveryStartedUnit == RunEnded => Active = {}

\* C14, for a run that returns from main: every unit has finished before.
C14_ExitAfterEveryUnit == mainPc = "exited" => \A d \in D : Ended(d)


\* the first candidate URL of d that is https and on the subnet
FirstOnSubnet(d) ==
    CHOOSE k \in 1..Len(Devices[d].urls) :
        /\ OnSubnet(Devices[d].urls[k])
        /\ \A j \in 1..(k - 1) : ~OnSubnet(Devices[d].urls[j])

\* C15: the endpoint selector picks the first URL in list order that is
\* https and on the subnet of the listen address, whatever the other URLs
\* of the list are: the client of the device is built from that URL.
C15_FirstUrlOnSubnetSelected ==
    \A d \in D : unit[d].pc # "queued" /\ ~NoneOnSubnet(d) =>
        /\ unit[d].base.some
        /\ unit[d].base.val = Url_parse(BaseString(Devices[d].urls[FirstOnSubnet(d)])).val

\* C15, for the lists the selector gets through: the URL selected is the
\* first one on the subnet.
C15_SelectedIsFirstOnSubnet ==
    \A d \in D : unit[d].base.some =>
        /\ ~NoneOnSubnet(d)
        /\ unit[d].base.val = Url_parse(BaseString(Devices[d].urls[FirstOnSubnet(d)])).val

\* the URI of the mandatory device-management client of d
MandatoryUri(d) == as_str(unit[d].base.val) \o service_path

\* C16: a device-management entry whose URL differs from the URI of the
\* mandatory client fails Clients::new; when Clients::new succeeds the
\* mandatory client is the one built at the base URI joined with the
\* service path.
C16_DeviceMgmtEntryMustMatch ==
    \A d \in D : ClientsReturned(d) /\ Devices[d].services.ok =>
        /\ (\E k \in EntriesOf(d, NS_devicemgmt) :
               LET parsed == Url_parse(Devices[d].services.val[k].x_addr)
               IN parsed.ok /\ as_str(parsed.val) # MandatoryUri(d))
           => ~unit[d].clients.val.ok
        /\ unit[d].clients.val.ok =>
               /\ as_str(unit[d].clients.val.val.devicemgmt.uri) = MandatoryUri(d)
               /\ unit[d].clients.val.val.devicemgmt.credentials = Credentials(args)

\* a catalog with a device-management entry equal to the mandatory URI,
\* after a media entry: accepted
C16_Witness ==
    \E d \in D : /\ ClientsOk(d)
                 /\ \E k \in EntriesOf(d, NS_devicemgmt) :
                        /\ k > 1
                        /\ Devices[d].services.val[k].x_addr = MandatoryUri(d)
                 /\ unit[d].clients.val.val.media.some

RecognizedNamespaces ==
    {NS_devicemgmt, NS_event, NS_deviceio, NS_media, NS_media2, NS_imaging, NS_ptz,
     NS_analytics}

\* the sequence s without its element k
Without(s, k) == [j \in 1..(Len(s) - 1) |-> IF j < k THEN s[j] ELSE s[j + 1]]

\* the entries of the catalog of d with an unrecognized namespace whose URL
\* parses and lies within the base URI
HarmlessUnknown(d) ==
    {k \in 1..Len(Devices[d].services.val) :
        LET entry == Devices[d].services.val[k]
            parsed == Url_parse(entry.x_addr)
        IN /\ entry.namespace \notin RecognizedNamespaces
           /\ parsed.ok
           /\ starts_with(as_str(parsed.val), as_str(unit[d].base.val))}

\* C17: an entry with an unrecognized namespace whose URL parses and lies
\* within the base URI changes nothing: the result of Clients::new is the
\* result for the catalog without that entry.
C17_UnknownNamespaceIgnored ==
    \A d \in D : ClientsReturned(d) /\ Devices[d].services.ok =>
        \A k \in HarmlessUnknown(d) :
            unit[d].clients.val =
                ClientsNew(unit[d].base.val, args, Ok(Without(Devices[d].services.val, k)))

\* an unknown entry between two recognized ones, Clients::new Ok
C17_Witness ==
    \E d \in D : /\ ClientsOk(d)
                 /\ Len(Devices[d].services.val) = 3
                 /\ 2 \in HarmlessUnknown(d)
                 /\ unit[d].clients.val.val.media.some
                 /\ unit[d].clients.val.val.ptz.some


\* the stream-URI requests d has sent for the profile token t
SentForToken(d, t) ==
    {k \in 1..Len(unit[d].sent) :
        IsStreamUriRequest(unit[d].sent[k]) /\ unit[d].sent[k].profile_token = t}

\* the profile tokens of the stream-URI requests d has sent
SentTokens(d) ==
    {unit[d].sent[k].profile_token : k \in SentOp(d, "GetStreamUri")}

\* C18: no request is repeated: a device unit sends at most one
\* get_services call, at most one get_profiles request and at most one
\* stream-URI request per profile token, whether or not any of them fails.
C18_NoRequestRepeated ==
    \A d \in D :
        /\ Cardinality(SentOp(d, "GetServices")) <= 1
        /\ Cardinality(SentOp(d, "GetProfiles")) <= 1
        /\ \A t \in SentTokens(d) : Cardinality(SentForToken(d, t)) = 1

\* a unit that has ended after a failed stream-URI request in the middle of
\* the catalog, having sent one request per profile and the two others
C18_Witness ==
    \E d \in D : /\ unit[d].pc = "done"
                 /\ ReturnedOk(d)
                 /\ Len(Catalog(d)) = 3
                 /\ ~Answer(d, 2).ok
                 /\ Len(unit[d].sent) = 5

\* C19: the stream-URI requests of a device are sent one at a time in the
\* order of the profile catalog: what has been sent is a prefix of the
\* requests in catalog order, every request before the last one sent has
\* returned, the unit awaits only the last one sent, and a line is printed
\* only after the last request has returned.
C19_OneRequestAtATimeInOrder ==
    \A d \in D : SentOp(d, "GetStreamUri") # {} \/ unit[d].out # <<>> =>
        LET sent == StreamUriSent(d)
        IN /\ sent = SubSeq(Requests(Catalog(d)), 1, Len(sent))
           /\ \A j \in 1..(Len(sent) - 1) : Answer(d, j).ok => j \in DOMAIN unit[d].responses
           /\ unit[d].pc = "get_stream_uri" => unit[d].i = Len(sent)
           /\ unit[d].out # <<>> =>
                  Len(sent) = Len(Catalog(d)) /\ unit[d].pc # "get_stream_uri"

\* the second of three requests is awaited, the first has returned
C19_Witness ==
    \E d \in D : /\ unit[d].pc = "get_stream_uri"
                 /\ unit[d].i = 2
                 /\ Len(Catalog(d)) = 3
                 /\ 1 \in DOMAIN unit[d].responses
                 /\ Len(StreamUriSent(d)) = 2

\* the last of the entries E of the catalog of d
LastEntry(d, E) == Devices[d].services.val[CHOOSE k \in E : \A j \in E : j <= k]

\* the client slot of a role after the whole catalog of d
SlotFor(d, ns) ==
    IF EntriesOf(d, ns) = {} THEN None
    ELSE Some(ClientBuilder(Url_parse(LastEntry(d, EntriesOf(d, ns)).x_addr).val,
                            Credentials(args)))

\* C20: when Clients::new succeeds, each role other than device management
\* holds the client built from the last entry of its namespace in catalog
\* order, and none when the catalog has no entry of that namespace.
C20_LastEntryOfARoleWins ==
    \A d \in D : ClientsOk(d) =>
        LET clients == unit[d].clients.val.val
        IN /\ clients.event = SlotFor(d, NS_event)
           /\ clients.deviceio = SlotFor(d, NS_deviceio)
           /\ clients.media = SlotFor(d, NS_media)
           /\ clients.media2 = SlotFor(d, NS_media2)
           /\ clients.imaging = SlotFor(d, NS_imaging)
           /\ clients.ptz = SlotFor(d, NS_ptz)
           /\ clients.analytics = SlotFor(d, NS_analytics)

\* two media entries with different URLs and a ptz entry: Ok, the media
\* client is at the URL of the second
C20_Witness ==
    \E d \in D : /\ ClientsOk(d)
                 /\ Cardinality(EntriesOf(d, NS_media)) = 2
                 /\ EntriesOf(d, NS_ptz) # {}
                 /\ \E j \in EntriesOf(d, NS_media), k \in EntriesOf(d, NS_media) :
                        /\ j < k
                        /\ Devices[d].services.val[j].x_addr # Devices[d].services.val[k].x_addr
                        /\ as_str(unit[d].clients.val.val.media.val.uri)
                               = Devices[d].services.val[k].x_addr

====
